---- MODULE Spec2Model ----
(***************************************************************************)
(* badgrclient: the authenticated session of BadgrClient (token exchange,  *)
(* expiry check, silent refresh, header handling), the response envelope   *)
(* validation, the entity base operations and the badge name index.        *)
(*                                                                         *)
(* One BadgrClient instance and one entity at a time are modelled.  Every  *)
(* action is one public operation of the library, run to completion: the   *)
(* HTTP responses it receives are inputs of the action.  The variables     *)
(* op, sent, rcvd, outcome and ret describe what the most recent action    *)
(* did (requests sent, responses received, exception raised, value         *)
(* returned).                                                              *)
(***************************************************************************)
EXTENDS Integers, Sequences, FiniteSets, TLC

VARIABLES
    pc,                 \* "init": __init__ ran up to line 85; "ready"; "failed": __init__ raised
    username,           \* constructor argument
    password,           \* constructor argument
    token,              \* constructor argument
    env_username,       \* getenv('BADGR_USERNAME'), the default of _get_auth_token
    env_password,       \* getenv('BADGR_PASSWORD')
    header,             \* self.header["Authorization"] without "Bearer ", None when the key is absent
    refresh_token,      \* self.refresh_token
    token_expires_at,   \* self.token_expires_at, NoTime for None
    unique_badge_names, \* self.unique_badge_names
    badge_names,        \* self.badge_names: issuer_eid -> (badge_name -> eid)
    now,                \* datetime.datetime.now()
    ent,                \* the entity object the caller holds
    created,            \* history: the <<name, issuer_eid>> pairs BadgeClass.create succeeded for
    op,                 \* name of the most recent operation
    args,               \* its arguments
    sent,               \* requests the most recent operation sent, in order
    rcvd,               \* responses it received, rcvd[i] answers sent[i]
    outcome,            \* "ok" or the exception the most recent operation raised
    ret                 \* value the most recent operation returned

vars == <<pc, username, password, token, env_username, env_password,
          header, refresh_token, token_expires_at, unique_badge_names,
          badge_names, created, now, ent, op, args, sent, rcvd, outcome, ret>>

sessionVars == <<header, refresh_token, token_expires_at>>
ctorVars == <<username, password, token, env_username, env_password, unique_badge_names>>
indexVars == <<badge_names, created>>

(***************************************************************************)
(* Bounds                                                                  *)
(***************************************************************************)
MaxTime == 3            \* the clock runs over 0..MaxTime
MaxExpiresIn == 2       \* expires_in of a token response ranges over 1..MaxExpiresIn
MaxResults == 1         \* a result list holds 0..MaxResults items
MaxIds == 2             \* revoke_assertions is given 0..MaxIds ids
MaxItems == 2           \* a listing holds 0..MaxItems items

(***************************************************************************)
(* Values                                                                  *)
(***************************************************************************)
None == "None"
NoTime == -1
ErrorStatus == 300

Truthy(x) == x \notin {None, ""}

\* Python dicts with string keys
EmptyDict == << >>
DictSet(dct, k, v) == [x \in DOMAIN dct \cup {k} |-> IF x = k THEN v ELSE dct[x]]

TOKEN_EP == "/o/token"
USER_EP == "/v1/user/profile"

AccessTokens == {"t1", "t2"}
RefreshTokens == {"r1", "r2"}

\* response["status"] of an envelope; present = FALSE when the key is absent
NoStatus == [present |-> FALSE, success |-> TRUE, description |-> FALSE]
StatusFields ==
    {NoStatus} \cup {[present |-> TRUE, success |-> s, description |-> d] : s, d \in BOOLEAN}

\* status codes the server answers with, around the threshold of _get_json
StatusCodes == {200, 201, 299, 300, 301, 400, 500}

NoItems == << >>

\* an HTTP response: json = body decodable, error = "error" in response
Envelope(j, c, e, s) ==
    [json |-> j, status_code |-> c, error |-> e, status |-> s,
     result |-> NoItems,
     access_token |-> None, refresh_token |-> None, expires_in |-> NoTime]

Undecodable == Envelope(FALSE, 200, FALSE, NoStatus)
PlainOk == Envelope(TRUE, 200, FALSE, NoStatus)

Envelopes ==
    {Envelope(FALSE, c, FALSE, NoStatus) : c \in StatusCodes}
    \cup {Envelope(TRUE, c, e, s) : c \in StatusCodes, e \in BOOLEAN, s \in StatusFields}

(***************************************************************************)
(* BadgrClient._get_json: "ok" when the envelope is returned, else the     *)
(* exception raised.                                                       *)
(***************************************************************************)
GetJson(req) ==
    IF ~req.json THEN "APIError"
    ELSE IF req.status_code >= ErrorStatus /\ req.error THEN "APIError"
    ELSE IF req.status.present /\ ~req.status.success /\ req.status.description
         THEN "APIError"
    ELSE "ok"

(***************************************************************************)
(* Token endpoint responses: the failing envelopes, the complete bodies,   *)
(* and bodies in which one of access_token, refresh_token and expires_in   *)
(* is missing.                                                             *)
(***************************************************************************)
TokenBody(a, r, e) ==
    [PlainOk EXCEPT !.access_token = a, !.refresh_token = r, !.expires_in = e]

TokenResponses ==
    {Undecodable,
     Envelope(TRUE, 400, TRUE, NoStatus),
     Envelope(TRUE, 200, FALSE, [present |-> TRUE, success |-> FALSE, description |-> TRUE])}
    \cup {TokenBody(a, r, e) : a \in AccessTokens, r \in RefreshTokens,
                               e \in 1..MaxExpiresIn}
    \cup {TokenBody(None, "r1", 1), TokenBody("t1", None, 1), TokenBody("t1", "r1", NoTime)}

\* responses of the resource endpoints whose result the caller does not read
PlainResponses ==
    {Undecodable,
     PlainOk,
     Envelope(TRUE, 400, TRUE, NoStatus),
     Envelope(TRUE, 200, FALSE, [present |-> TRUE, success |-> TRUE, description |-> FALSE]),
     Envelope(TRUE, 200, FALSE, [present |-> TRUE, success |-> FALSE, description |-> FALSE]),
     Envelope(TRUE, 200, FALSE, [present |-> TRUE, success |-> FALSE, description |-> TRUE])}

NoData == [none |-> TRUE]
NoResponse == [none |-> TRUE]

Request(method, ep, authorization, data) ==
    [method |-> method, ep |-> ep, Authorization |-> authorization, data |-> data]

Session == [header |-> header, refresh_token |-> refresh_token,
            token_expires_at |-> token_expires_at]

(***************************************************************************)
(* BadgrClient._get_auth_token                                             *)
(***************************************************************************)
\* lines 181-187: the grant the payload carries, None when no branch is taken
GrantType(s, u, p) ==
    IF Truthy(u) /\ Truthy(p) THEN "password"
    ELSE IF Truthy(s.refresh_token) THEN "refresh_token"
    ELSE None

\* lines 174-187: the form posted to /o/token
TokenPayload(s, u, p) ==
    LET g == GrantType(s, u, p) IN
    [grant_type |-> g,
     username |-> IF g = "password" THEN u ELSE None,
     password |-> IF g = "password" THEN p ELSE None,
     refresh_token |-> IF g = "refresh_token" THEN s.refresh_token ELSE None]

\* mutant: the clock is read after the response has arrived
TokenExpiresAt_AfterResponse(called, received, expires_in) == received + expires_in

\* lines 172, 194-196: now is read when the method is entered (called), not
\* when the response arrives (received)
TokenExpiresAt(called, received, expires_in) == called + expires_in

\* The session after _get_auth_token(u, p) entered at time called and answered
\* with resp at time received, and the exception raised ("ok" for none).
GetAuthToken(s, u, p, called, received, resp) ==
    LET s1 == IF GrantType(s, u, p) = "refresh_token"
              THEN [s EXCEPT !.refresh_token = None]               \* line 188
              ELSE s
        req == Request("POST", TOKEN_EP, None, TokenPayload(s, u, p))  \* line 190
        s2 == [s1 EXCEPT !.token_expires_at =
                             TokenExpiresAt(called, received, resp.expires_in)]
        s3 == [s2 EXCEPT !.refresh_token = resp.refresh_token]     \* line 197
        s4 == [s3 EXCEPT !.header = resp.access_token]             \* line 198
    IN  IF GetJson(resp) # "ok"
        THEN [sess |-> s1, sent |-> <<req>>, rcvd |-> <<resp>>, out |-> GetJson(resp)]
        ELSE IF resp.expires_in = NoTime
        THEN [sess |-> s1, sent |-> <<req>>, rcvd |-> <<resp>>, out |-> "KeyError"]
        ELSE IF resp.refresh_token = None
        THEN [sess |-> s2, sent |-> <<req>>, rcvd |-> <<resp>>, out |-> "KeyError"]
        ELSE IF resp.access_token = None
        THEN [sess |-> s3, sent |-> <<req>>, rcvd |-> <<resp>>, out |-> "KeyError"]
        ELSE [sess |-> s4, sent |-> <<req>>, rcvd |-> <<resp>>, out |-> "ok"]

(***************************************************************************)
(* BadgrClient._call_api                                                   *)
(***************************************************************************)
\* mutant: the comparison of line 115 reversed
NeedsRefresh_Reversed(s, auth, t) ==
    auth /\ s.token_expires_at # NoTime /\ s.token_expires_at > t

\* mutant: the None test of line 114 dropped
NeedsRefresh_NoNoneTest(s, auth, t) ==
    auth /\ s.token_expires_at < t

\* lines 114-115
NeedsRefresh(s, auth, t) ==
    auth /\ s.token_expires_at # NoTime /\ s.token_expires_at < t

\* lines 119-122: header aliases self.header, so the pop removes the key from
\* the session's own header
PopAuthorization(s, auth) ==
    IF ~auth /\ s.header # None THEN [s EXCEPT !.header = None] ELSE s

\* _call_api(ep, method, data=data, auth=auth) entered at time t. tokResp
\* answers the token exchange, received at time t2, when one is made; resp
\* answers the request itself.
CallApi(s, method, ep, data, auth, t, t2, tokResp, resp) ==
    LET a == IF NeedsRefresh(s, auth, t)
             THEN GetAuthToken(s, env_username, env_password, t, t2, tokResp)
             ELSE [sess |-> s, sent |-> << >>, rcvd |-> << >>, out |-> "ok"]
        s1 == PopAuthorization(a.sess, auth)
        req == Request(method, ep, s1.header, data)                \* lines 124-131
    IN  IF a.out # "ok"
        THEN [sess |-> a.sess, sent |-> a.sent, rcvd |-> a.rcvd, out |-> a.out,
              response |-> NoResponse]
        ELSE [sess |-> s1, sent |-> Append(a.sent, req), rcvd |-> Append(a.rcvd, resp),
              out |-> GetJson(resp),
              response |-> IF GetJson(resp) = "ok" THEN resp ELSE NoResponse]

\* the token responses (out of R) and arrival times a call entered at time t
\* may meet
RefreshInputs(R, s, auth, t) ==
    IF NeedsRefresh(s, auth, t)
    THEN {<<r, t2>> : r \in R, t2 \in {x \in {t, t + 1} : x <= MaxTime}}
    ELSE {<<Undecodable, t>>}

(***************************************************************************)
(* The session: construction, the passage of time, and two gateway calls,  *)
(* one authenticated (fetch_tokens) and one not (_v1_create_user).         *)
(***************************************************************************)
TOKENS_EP == "/v2/auth/tokens"

NoArgs == [none |-> TRUE]
NoEntity == [kind |-> None, entityId |-> None, data |-> NoData]

\* what the operation o, called with a, did
Log(o, a, s, r, out, rt) ==
    /\ op' = o
    /\ args' = a
    /\ sent' = s
    /\ rcvd' = r
    /\ outcome' = out
    /\ ret' = rt

NoLog ==
    /\ op = "new"
    /\ args = NoArgs
    /\ sent = << >>
    /\ rcvd = << >>
    /\ outcome = "ok"
    /\ ret = NoResponse

\* BadgrClient.__init__ lines 73-85, for every choice of the arguments
InitSession ==
    /\ pc = "init"
    /\ username \in {None, "user"}
    /\ password \in {None, "pass"}
    /\ token \in {None, "t0"}
    /\ refresh_token \in {None, "r0"}
    /\ \E e \in BOOLEAN :
          /\ env_username = IF e THEN "env_user" ELSE None
          /\ env_password = IF e THEN "env_pass" ELSE None
    /\ header = None
    /\ token_expires_at = NoTime
    /\ unique_badge_names = FALSE
    /\ badge_names = EmptyDict
    /\ created = {}
    /\ now = 0
    /\ ent = NoEntity
    /\ NoLog

SetSession(s) ==
    /\ header' = s.header
    /\ refresh_token' = s.refresh_token
    /\ token_expires_at' = s.token_expires_at

\* __init__ lines 87-94: a token was supplied
ConstructWithToken ==
    /\ pc = "init"
    /\ Truthy(token)
    /\ pc' = IF Truthy(refresh_token) THEN "ready" ELSE "failed"
    /\ header' = IF Truthy(refresh_token) THEN token ELSE header
    /\ Log("__init__", NoArgs, << >>, << >>,
           IF Truthy(refresh_token) THEN "ok" ELSE "BadgrClientError", NoResponse)
    /\ UNCHANGED <<refresh_token, token_expires_at, now, ent, indexVars, ctorVars>>

\* __init__ lines 95-96: no token, _get_auth_token(username, password)
ConstructWithCredentials ==
    /\ pc = "init"
    /\ ~Truthy(token)
    /\ \E resp \in TokenResponses, t2 \in {now, now + 1} :
          LET a == GetAuthToken(Session, username, password, now, t2, resp) IN
          /\ SetSession(a.sess)
          /\ pc' = IF a.out = "ok" THEN "ready" ELSE "failed"
          /\ Log("__init__", NoArgs, a.sent, a.rcvd, a.out, NoResponse)
          /\ now' = t2
    /\ UNCHANGED <<ent, indexVars, ctorVars>>

\* time passes between two operations
Tick ==
    /\ pc = "ready"
    /\ now < MaxTime
    /\ now' = now + 1
    /\ Log("tick", NoArgs, << >>, << >>, "ok", NoResponse)
    /\ UNCHANGED <<pc, sessionVars, ent, indexVars, ctorVars>>

\* BadgrClient.fetch_tokens: the dict _call_api returns has no attribute result
FetchTokens ==
    /\ pc = "ready"
    /\ \E in \in RefreshInputs(TokenResponses, Session, TRUE, now), resp \in PlainResponses :
          LET c == CallApi(Session, "GET", TOKENS_EP, NoData, TRUE,
                           now, in[2], in[1], resp) IN
          /\ SetSession(c.sess)
          /\ Log("fetch_tokens", NoArgs, c.sent, c.rcvd,
                 IF c.out = "ok" THEN "AttributeError" ELSE c.out, NoResponse)
          /\ now' = in[2]
    /\ UNCHANGED <<pc, ent, indexVars, ctorVars>>

\* BadgrClient._v1_create_user(first_name, last_name, email, password)
V1CreateUser(email, pw) ==
    /\ pc = "ready"
    /\ IF ~Truthy(email) \/ ~Truthy(pw)
       THEN /\ Log("_v1_create_user", [email |-> email, password |-> pw],
                   << >>, << >>, "BadgrClientError", NoResponse)
            /\ UNCHANGED sessionVars
       ELSE \E resp \in PlainResponses :
            LET c == CallApi(Session, "POST", USER_EP,
                             [email |-> email, password |-> pw], FALSE,
                             now, now, Undecodable, resp) IN
            /\ SetSession(c.sess)
            /\ Log("_v1_create_user", [email |-> email, password |-> pw],
                   c.sent, c.rcvd, c.out, c.response)
    /\ UNCHANGED <<pc, now, ent, indexVars, ctorVars>>

NextSession ==
    \/ ConstructWithToken
    \/ ConstructWithCredentials
    \/ Tick
    \/ FetchTokens
    \/ \E email \in {None, "mail"}, pw \in {None, "pw"} : V1CreateUser(email, pw)

Spec == InitSession /\ [][NextSession]_vars

(***************************************************************************)
(* Properties of the session                                               *)
(***************************************************************************)
\* the token endpoint answered with an envelope _get_json accepts that holds
\* expires_in, refresh_token and access_token
ExchangeSucceeded(resp) ==
    /\ GetJson(resp) = "ok"
    /\ resp.expires_in # NoTime
    /\ resp.refresh_token # None
    /\ resp.access_token # None

Expired == token_expires_at # NoTime /\ token_expires_at < now

IsExchange(i, log) == i \in 1..Len(log) /\ log[i].ep = TOKEN_EP

\* C1: when expires_at is strictly in the past, an authenticated call first
\* performs exactly one token exchange; if the exchange succeeds the original
\* request is sent after it, carrying the access token the exchange returned,
\* which is also the session's header afterwards.
C1_RefreshOnceThenCall ==
    [][(pc = "ready" /\ Expired /\ op' = "fetch_tokens") =>
          /\ IsExchange(1, sent')
          /\ \A i \in 2..Len(sent') : ~IsExchange(i, sent')
          /\ ExchangeSucceeded(rcvd'[1]) <=> Len(sent') = 2
          /\ Len(sent') = 2 =>
                /\ sent'[2].ep = TOKENS_EP
                /\ sent'[2].Authorization = rcvd'[1].access_token
                /\ header' = rcvd'[1].access_token
      ]_vars

C1_Witness ==
    /\ op = "fetch_tokens"
    /\ Len(sent) = 2
    /\ IsExchange(1, sent)
    /\ sent[1].data.grant_type = "refresh_token"
    /\ sent[2].Authorization = rcvd[1].access_token
    /\ header = rcvd[1].access_token

\* C2 (as claimed): every request of an authenticated call carries a bearer
\* Authorization header, the session's current one, and every request of an
\* unauthenticated call carries none.
C2_HeaderFollowsRequiresAuth ==
    \A i \in 1..Len(sent) :
        /\ sent[i].ep = TOKENS_EP => (Truthy(sent[i].Authorization)
                                      /\ sent[i].Authorization = header)
        /\ sent[i].ep = USER_EP => sent[i].Authorization = None

\* C3 (as claimed): a token exchange that fails leaves header, refresh_token
\* and token_expires_at as they were before authenticate was called.
C3_FailedExchangeLeavesSession ==
    [][(IsExchange(1, sent') /\ ~ExchangeSucceeded(rcvd'[1]))
          => UNCHANGED sessionVars]_vars

\* C4: after a successful token exchange the header holds the response's
\* access_token, refresh_token is the response's refresh_token, and
\* token_expires_at is the time authenticate was called plus expires_in.
C4_SuccessfulExchangeStoresTokens ==
    [][(IsExchange(1, sent') /\ ExchangeSucceeded(rcvd'[1])) =>
          /\ header' = rcvd'[1].access_token
          /\ refresh_token' = rcvd'[1].refresh_token
          /\ token_expires_at' = now + rcvd'[1].expires_in
      ]_vars

\* a password-grant exchange that took time and succeeded
C4_Witness ==
    /\ op = "__init__"
    /\ pc = "ready"
    /\ IsExchange(1, sent)
    /\ sent[1].data.grant_type = "password"
    /\ now = 1
    /\ token_expires_at = rcvd[1].expires_in
    /\ header = rcvd[1].access_token
    /\ refresh_token = rcvd[1].refresh_token

\* the step runs _get_auth_token(u, p)
Authenticates(u, p) ==
    \/ /\ op' = "__init__" /\ pc = "init" /\ ~Truthy(token)
       /\ u = username /\ p = password
    \/ /\ op' = "fetch_tokens" /\ NeedsRefresh(Session, TRUE, now)
       /\ u = env_username /\ p = env_password

\* C5 (as claimed): authenticate posts a password grant when username and
\* password are both given, otherwise a refresh-token grant with the stored
\* refresh token, and fails with AuthError, posting nothing, when neither is
\* available.
C5_GrantSelectionOrAuthError ==
    [][\A u \in {username, env_username}, p \in {password, env_password} :
          Authenticates(u, p) =>
             IF Truthy(u) /\ Truthy(p)
             THEN IsExchange(1, sent') /\ sent'[1].data.grant_type = "password"
             ELSE IF Truthy(refresh_token)
             THEN /\ IsExchange(1, sent')
                  /\ sent'[1].data.grant_type = "refresh_token"
                  /\ sent'[1].data.refresh_token = refresh_token
             ELSE outcome' = "AuthError" /\ sent' = << >>
      ]_vars

\* C6: a client constructed from a supplied token keeps token_expires_at
\* None and never posts to the token endpoint, whatever calls it makes and
\* however much time passes.
C6_SuppliedTokenNeverRefreshed ==
    Truthy(token) =>
        /\ token_expires_at = NoTime
        /\ \A i \in 1..Len(sent) : ~IsExchange(i, sent)

C6_Witness ==
    /\ Truthy(token)
    /\ pc = "ready"
    /\ op = "fetch_tokens"
    /\ now >= 2
    /\ Len(sent) = 1
    /\ sent[1].Authorization = token

(***************************************************************************)
(* _get_json on its own: one response of every shape, then the call.       *)
(***************************************************************************)
InitJson ==
    /\ pc = "ready"
    /\ username = None
    /\ password = None
    /\ token = None
    /\ env_username = None
    /\ env_password = None
    /\ header = None
    /\ refresh_token = None
    /\ token_expires_at = NoTime
    /\ unique_badge_names = FALSE
    /\ badge_names = EmptyDict
    /\ created = {}
    /\ now = 0
    /\ ent = NoEntity
    /\ op = "new"
    /\ args = NoArgs
    /\ sent = << >>
    /\ rcvd \in {<<req>> : req \in Envelopes}
    /\ outcome = "ok"
    /\ ret = NoResponse

\* BadgrClient._get_json(req) for the response held in rcvd
ApplyGetJson ==
    /\ op = "new"
    /\ Log("_get_json", NoArgs, sent, rcvd, GetJson(rcvd[1]),
           IF GetJson(rcvd[1]) = "ok" THEN rcvd[1] ELSE NoResponse)
    /\ UNCHANGED <<pc, sessionVars, now, ent, indexVars, ctorVars>>

SpecJson == InitJson /\ [][ApplyGetJson]_vars

\* C7 (as claimed): _get_json fails on an undecodable body; on a decodable one
\* it fails with the API error when the status code is at least 300 and an
\* error field is present, or when a status field is present whose success
\* flag is false, with or without a description; otherwise it returns the
\* envelope unchanged.
C7_EnvelopeValidation ==
    op = "_get_json" =>
        LET req == rcvd[1] IN
        IF ~req.json THEN outcome = "APIError"
        ELSE IF \/ (req.status_code >= 300 /\ req.error)
                \/ (req.status.present /\ ~req.status.success)
        THEN outcome = "APIError"
        ELSE outcome = "ok" /\ ret = req

(***************************************************************************)
(* Entities: Base and its variants Issuer, BadgeClass and Assertion        *)
(***************************************************************************)
Kinds == {"Issuer", "BadgeClass", "Assertion"}
EntityIds == {"e1", "e2"}
BadgeNames == {"n1", "n2"}
IssuerIds == {"i1"}

\* the class attribute ENDPOINT
ENDPOINT(kind) ==
    CASE kind = "Issuer" -> "/v2/issuers"
      [] kind = "BadgeClass" -> "/v2/badgeclasses"
      [] kind = "Assertion" -> "/v2/assertions"

\* one item of response['result']; a field is None when the key is absent
Item(kind, eid, name, issuer) ==
    [entityType |-> kind, entityId |-> eid, name |-> name, issuer |-> issuer]

\* the items the server holds for entities of a kind
Items(kind) ==
    {Item(kind, eid, name, issuer) :
        eid \in EntityIds, name \in BadgeNames, issuer \in IssuerIds}

\* the lists of at most n items of S
RECURSIVE ItemLists(_, _)
ItemLists(S, n) ==
    IF n = 0 THEN {<< >>}
    ELSE ItemLists(S, n - 1)
         \cup {Append(l, x) : l \in {m \in ItemLists(S, n - 1) : Len(m) = n - 1}, x \in S}

WithResult(req, items) == [req EXCEPT !.result = items]

\* responses of a resource endpoint whose result holds items of S
ResultResponses(S) ==
    {Undecodable, Envelope(TRUE, 400, TRUE, NoStatus)}
    \cup {WithResult(req, l) :
            req \in {PlainOk,
                     Envelope(TRUE, 200, FALSE,
                              [present |-> TRUE, success |-> TRUE, description |-> FALSE])},
            l \in ItemLists(S, MaxResults)}

\* what the token endpoint answers to a refresh made on behalf of an entity:
\* a refusal or a new pair of tokens
RefreshResponses ==
    {Envelope(TRUE, 400, TRUE, NoStatus), TokenBody("t2", "r2", MaxExpiresIn)}

\* Base.__init__
NewBase(kind, eid) == [kind |-> kind, entityId |-> eid, data |-> NoData]

\* mutant: the id is taken from the item and the item is not kept
SetData_IdOnly(e, data) ==
    [e EXCEPT !.entityId = IF data.entityId # None THEN data.entityId ELSE @]

\* mutant: the item is kept and the id is not taken from it
SetData_DataOnly(e, data) == [e EXCEPT !.data = data]

\* Base.set_data
SetData(e, data) ==
    [e EXCEPT !.data = data,
              !.entityId = IF data.entityId # None THEN data.entityId ELSE @]

\* Base.get_entity_ep
GetEntityEp(e) == ENDPOINT(e.kind) \o "/" \o e.entityId

\* mutant: the decorator is missing from the method
EidRequired_Missing(e) == TRUE

\* util.eid_required: the test the wrapper makes before it calls the method
EidRequired(e) == Truthy(e.entityId)

\* the wrapper's else branch: nothing is sent, nothing changes
RaiseEidRequired(o, a) ==
    /\ Log(o, a, << >>, << >>, "Exception", NoResponse)
    /\ UNCHANGED <<sessionVars, now, ent>>

\* Issuer(client, eid), Assertion(client, eid), BadgeClass(client, eid)
NewEntity(kind, eid) ==
    /\ pc = "ready"
    /\ ent' = NewBase(kind, eid)
    /\ Log("new_entity", [kind |-> kind, eid |-> eid], << >>, << >>, "ok", NoResponse)
    /\ UNCHANGED <<pc, sessionVars, now, indexVars, ctorVars>>

\* Base.fetch
Fetch ==
    /\ pc = "ready"
    /\ ent.kind # None
    /\ IF ~EidRequired(ent)
       THEN RaiseEidRequired("fetch", NoArgs)
       ELSE \E in \in RefreshInputs(RefreshResponses, Session, TRUE, now),
               resp \in ResultResponses(Items(ent.kind)) :
            LET c == CallApi(Session, "GET", GetEntityEp(ent), NoData, TRUE,
                             now, in[2], in[1], resp)
                out == IF c.out # "ok" THEN c.out
                       ELSE IF Len(resp.result) = 0 THEN "IndexError"   \* line 69
                       ELSE "ok"
            IN  /\ SetSession(c.sess)
                /\ now' = in[2]
                /\ ent' = IF out = "ok" THEN SetData(ent, resp.result[1]) ELSE ent
                /\ Log("fetch", NoArgs, c.sent, c.rcvd, out, NoResponse)
    /\ UNCHANGED <<pc, indexVars, ctorVars>>

\* Base.update: line 59 calls self.fetch(ep), and fetch takes no argument
\* besides self, so the call raises TypeError before fetch is entered
Update ==
    /\ pc = "ready"
    /\ ent.kind # None
    /\ IF ~EidRequired(ent)
       THEN RaiseEidRequired("update", NoArgs)
       ELSE \E in \in RefreshInputs(RefreshResponses, Session, TRUE, now),
               resp \in ResultResponses(Items(ent.kind)) :
            LET c == CallApi(Session, "PUT", GetEntityEp(ent), ent.data, TRUE,
                             now, in[2], in[1], resp)
            IN  /\ SetSession(c.sess)
                /\ now' = in[2]
                /\ ent' = ent
                /\ Log("update", NoArgs, c.sent, c.rcvd,
                       IF c.out # "ok" THEN c.out ELSE "TypeError", NoResponse)
    /\ UNCHANGED <<pc, indexVars, ctorVars>>

\* Base.delete
Delete ==
    /\ pc = "ready"
    /\ ent.kind # None
    /\ IF ~EidRequired(ent)
       THEN RaiseEidRequired("delete", NoArgs)
       ELSE \E in \in RefreshInputs(RefreshResponses, Session, TRUE, now), resp \in PlainResponses :
            LET c == CallApi(Session, "DELETE", GetEntityEp(ent), NoData, TRUE,
                             now, in[2], in[1], resp)
            IN  /\ SetSession(c.sess)
                /\ now' = in[2]
                /\ ent' = ent
                /\ Log("delete", NoArgs, c.sent, c.rcvd, c.out, c.response)
    /\ UNCHANGED <<pc, indexVars, ctorVars>>

\* the reasons a revocation is given
Reasons == {"Revoked by badgerclient", "duplicate"}

\* Assertion.revoke(reason): the body of the method does not read reason
Revoke(reason) ==
    /\ pc = "ready"
    /\ ent.kind = "Assertion"
    /\ IF ~EidRequired(ent)
       THEN RaiseEidRequired("revoke", [reason |-> reason])
       ELSE \E in \in RefreshInputs(RefreshResponses, Session, TRUE, now), resp \in PlainResponses :
            LET c == CallApi(Session, "DELETE", GetEntityEp(ent), NoData, TRUE,
                             now, in[2], in[1], resp)
            IN  /\ SetSession(c.sess)
                /\ now' = in[2]
                /\ ent' = ent
                /\ Log("revoke", [reason |-> reason], c.sent, c.rcvd, c.out, c.response)
    /\ UNCHANGED <<pc, indexVars, ctorVars>>

\* a constructed client: from a supplied token, or from a password exchange
InitEntity ==
    /\ pc = "ready"
    /\ username = "user"
    /\ password = "pass"
    /\ env_username = None
    /\ env_password = None
    /\ \E supplied \in BOOLEAN :
          /\ token = IF supplied THEN "t0" ELSE None
          /\ header = IF supplied THEN "t0" ELSE "t1"
          /\ refresh_token = IF supplied THEN "r0" ELSE "r1"
          /\ token_expires_at = IF supplied THEN NoTime ELSE 1
    /\ unique_badge_names = FALSE
    /\ badge_names = EmptyDict
    /\ created = {}
    /\ now = 0
    /\ ent = NoEntity
    /\ NoLog

NextEntity ==
    \/ Tick
    \/ \E kind \in Kinds, eid \in EntityIds \cup {None} : NewEntity(kind, eid)
    \/ Fetch
    \/ Update
    \/ Delete
    \/ \E reason \in Reasons : Revoke(reason)

SpecEntity == InitEntity /\ [][NextEntity]_vars

IdGuardedOps == {"fetch", "update", "delete"}

\* C8: an id-guarded operation on an entity whose entity_id is null raises
\* the precondition error, sends no request, and leaves the entity, the
\* session and the name index as they were.
C8_UnboundEntityRejected ==
    [][(op' \in IdGuardedOps /\ ent.entityId = None) =>
          /\ outcome' = "Exception"
          /\ sent' = << >>
          /\ ent' = ent
          /\ UNCHANGED <<sessionVars, badge_names>>
      ]_vars

C8_Witness ==
    /\ op \in IdGuardedOps
    /\ ent.kind \in Kinds
    /\ ent.entityId = None
    /\ outcome = "Exception"
    /\ sent = << >>

\* the request update() makes with PUT, if its response was accepted
AcceptedPut(i) ==
    /\ i \in 1..Len(sent')
    /\ sent'[i].method = "PUT"
    /\ GetJson(rcvd'[i]) = "ok"

\* C9 (as claimed): update() on a bound entity PUTs the entity's current raw
\* data to its endpoint and, when that is accepted, GETs the same endpoint,
\* sets the raw data to the item the GET returned, and returns the PUT
\* response.
C9_UpdateWritesThenReadsBack ==
    [][(op' = "update" /\ Truthy(ent.entityId)) =>
          \A i \in 1..Len(sent') :
             AcceptedPut(i) =>
                /\ sent'[i].ep = GetEntityEp(ent)
                /\ sent'[i].data = ent.data
                /\ Len(sent') = i + 1
                /\ sent'[i + 1].method = "GET"
                /\ sent'[i + 1].ep = GetEntityEp(ent)
                /\ (GetJson(rcvd'[i + 1]) = "ok" /\ Len(rcvd'[i + 1].result) = 1) =>
                      /\ outcome' = "ok"
                      /\ ent'.data = rcvd'[i + 1].result[1]
                      /\ ret' = rcvd'[i]
      ]_vars

\* C15: when fetch() on a bound entity has its GET accepted, zero result
\* items make it raise IndexError with entity_id and data as they were, and
\* a result of one item makes it succeed with that item as the data.
C15_FetchNeedsOneItem ==
    [][(/\ op' = "fetch"
        /\ ent.entityId # None
        /\ sent' # << >>
        /\ sent'[Len(sent')].ep = GetEntityEp(ent)
        /\ GetJson(rcvd'[Len(rcvd')]) = "ok") =>
          LET result == rcvd'[Len(rcvd')].result
          IN  /\ Len(result) = 0 => (outcome' = "IndexError" /\ ent' = ent)
              /\ Len(result) = 1 =>
                    /\ outcome' = "ok"
                    /\ ent'.data = result[1]
                    /\ ent'.kind = ent.kind
      ]_vars

\* a fetch that found nothing, on an entity that had data from an earlier
\* fetch
C15_Witness ==
    /\ op = "fetch"
    /\ outcome = "IndexError"
    /\ rcvd[Len(rcvd)].result = << >>
    /\ ent.entityId # None
    /\ ent.data # NoData

\* C16 (as claimed): the DELETE that Assertion.revoke(reason) sends to the
\* assertion's endpoint carries the given revocation reason.
C16_RevokeCarriesReason ==
    \A i \in 1..Len(sent) :
        (op = "revoke" /\ sent[i].method = "DELETE") =>
            /\ sent[i].ep = GetEntityEp(ent)
            /\ "revocationReason" \in DOMAIN sent[i].data
            /\ sent[i].data.revocationReason = args.reason

(***************************************************************************)
(* The badge name index                                                    *)
(***************************************************************************)
\* mutant: the two keys are used in the wrong order
GetEidFromBadgeName_KeysSwapped(unique, idx, badge_name, issuer_eid) ==
    IF ~(Truthy(badge_name) \/ Truthy(issuer_eid)) THEN None
    ELSE IF ~unique THEN None
    ELSE IF /\ badge_name \in DOMAIN idx
            /\ issuer_eid \in DOMAIN idx[badge_name]
            /\ Truthy(idx[badge_name][issuer_eid])
         THEN idx[badge_name][issuer_eid]
    ELSE None

\* BadgrClient.get_eid_from_badge_name; unique is self.unique_badge_names and
\* idx is self.badge_names
GetEidFromBadgeName(unique, idx, badge_name, issuer_eid) ==
    IF ~(Truthy(badge_name) \/ Truthy(issuer_eid)) THEN None
    ELSE IF ~unique THEN None
    ELSE IF /\ issuer_eid \in DOMAIN idx
            /\ DOMAIN idx[issuer_eid] # {}
            /\ badge_name \in DOMAIN idx[issuer_eid]
            /\ Truthy(idx[issuer_eid][badge_name])
         THEN idx[issuer_eid][badge_name]
    ELSE None

\* mutant: the two keys are used in the wrong order
SaveBadgeName_KeysSwapped(idx, badge) ==
    LET inner == IF badge.data.name \in DOMAIN idx
                 THEN idx[badge.data.name]
                 ELSE EmptyDict
    IN  IF ~(Truthy(badge.entityId) \/ Truthy(badge.data.name) \/ Truthy(badge.data.issuer))
        THEN idx
        ELSE DictSet(idx, badge.data.name,
                     DictSet(inner, badge.data.issuer, badge.entityId))

\* mutant: the issuer's dict is created anew on every call
SaveBadgeName_FreshInner(idx, badge) ==
    IF ~(Truthy(badge.entityId) \/ Truthy(badge.data.name) \/ Truthy(badge.data.issuer))
    THEN idx
    ELSE DictSet(idx, badge.data.issuer,
                 DictSet(EmptyDict, badge.data.name, badge.entityId))

\* BadgrClient._save_badge_name
SaveBadgeName(idx, badge) ==
    LET eid == badge.entityId
        badge_name == badge.data.name
        issuer_eid == badge.data.issuer
        inner == IF issuer_eid \in DOMAIN idx /\ DOMAIN idx[issuer_eid] # {}
                 THEN idx[issuer_eid]
                 ELSE EmptyDict                                    \* lines 255-256
    IN  IF ~(Truthy(eid) \/ Truthy(badge_name) \/ Truthy(issuer_eid))
        THEN idx
        ELSE DictSet(idx, issuer_eid, DictSet(inner, badge_name, eid))

\* the loops of lines 272-273 and badgrmodels.py 373-374
RECURSIVE SaveBadgeNames(_, _)
SaveBadgeNames(idx, badges) ==
    IF badges = << >> THEN idx
    ELSE SaveBadgeNames(SaveBadgeName(idx, Head(badges)), Tail(badges))

\* the keys of MODELS
MODELS == {"Assertion", "BadgeClass", "Issuer"}

\* mutant: a type that is no key is looked up without an error and its item
\* takes the else branch of line 215
Deserialize_PassThrough(result) ==
    [out |-> "ok",
     value |-> [i \in 1..Len(result) |->
                   IF result[i].entityType \in MODELS
                   THEN SetData(NewBase(result[i].entityType, None), result[i])
                   ELSE result[i]]]

\* BadgrClient._deserialize: MODELS[entityType] raises KeyError for a type
\* that is no key; MODELS[entityType](self) is given neither an eid nor a name
Deserialize(result) ==
    IF \E i \in 1..Len(result) : result[i].entityType \notin MODELS
    THEN [out |-> "KeyError", value |-> << >>]
    ELSE [out |-> "ok",
          value |-> [i \in 1..Len(result) |->
                        SetData(NewBase(result[i].entityType, None), result[i])]]

\* the badge classes the server holds for an issuer, and the ones it may
\* answer a creation of (name, issuer_eid) with
BadgeItems(names, issuer_eid) ==
    {Item("BadgeClass", eid, name, issuer_eid) : eid \in EntityIds, name \in names}

\* BadgeClass.__init__(client, eid, badge_name, issuer_eid)
NewBadgeClass(eid, badge_name, issuer_eid) ==
    /\ pc = "ready"
    /\ LET entityId == GetEidFromBadgeName(unique_badge_names, badge_names,
                                           badge_name, issuer_eid)
       IN  ent' = IF unique_badge_names /\ Truthy(entityId)
                  THEN NewBase("BadgeClass", entityId)
                  ELSE NewBase("BadgeClass", eid)
    /\ Log("new_badgeclass",
           [eid |-> eid, badge_name |-> badge_name, issuer_eid |-> issuer_eid],
           << >>, << >>, "ok", NoResponse)
    /\ UNCHANGED <<pc, sessionVars, now, indexVars, ctorVars>>

\* mutant: the name is looked up before the criteria are tested
CreatePrecheck_NameFirst(unique, idx, name, issuer_eid, criteria_text, criteria_url) ==
    IF unique /\ Truthy(GetEidFromBadgeName(unique, idx, name, issuer_eid))
    THEN "BadgrClientError"
    ELSE IF ~(Truthy(criteria_text) \/ Truthy(criteria_url)) THEN "Exception"
    ELSE "ok"

\* BadgeClass.create lines 223-249: the exception raised before any request
\* is made, "ok" when none is
CreatePrecheck(unique, idx, name, issuer_eid, criteria_text, criteria_url) ==
    IF ~(Truthy(criteria_text) \/ Truthy(criteria_url)) THEN "Exception"
    ELSE IF unique /\ Truthy(GetEidFromBadgeName(unique, idx, name, issuer_eid))
    THEN "BadgrClientError"
    ELSE "ok"

\* BadgeClass.create(name, image, description, issuer_eid, criteria_text,
\* criteria_url); image, description, alignments, tags and expires are
\* copied into the payload and read nowhere else
CreateBadgeClass(name, issuer_eid, criteria_text, criteria_url) ==
    LET a == [name |-> name, issuer_eid |-> issuer_eid,
              criteria_text |-> criteria_text, criteria_url |-> criteria_url]
        payload == [name |-> name, issuer |-> issuer_eid,
                    criteria_text |-> criteria_text, criteria_url |-> criteria_url]
        pre == CreatePrecheck(unique_badge_names, badge_names, name, issuer_eid,
                              criteria_text, criteria_url)
    IN
    /\ pc = "ready"
    /\ ent.kind = "BadgeClass"
    /\ IF pre # "ok"
       THEN /\ Log("create_badgeclass", a, << >>, << >>, pre, NoResponse)
            /\ UNCHANGED <<sessionVars, now, ent, indexVars>>
       ELSE \E in \in RefreshInputs(RefreshResponses, Session, TRUE, now),
               resp \in ResultResponses(BadgeItems({name}, issuer_eid)) :
            LET c == CallApi(Session, "POST", ENDPOINT("BadgeClass"), payload, TRUE,
                             now, in[2], in[1], resp)
                out == IF c.out # "ok" THEN c.out
                       ELSE IF Len(resp.result) = 0 THEN "IndexError"   \* line 256
                       ELSE "ok"
                self == IF out = "ok" THEN SetData(ent, resp.result[1]) ELSE ent
            IN  /\ SetSession(c.sess)
                /\ now' = in[2]
                /\ ent' = self
                /\ badge_names' = IF out = "ok" /\ unique_badge_names
                                  THEN SaveBadgeName(badge_names, self)
                                  ELSE badge_names
                /\ created' = IF out = "ok"
                              THEN created \cup {<<name, issuer_eid>>}
                              ELSE created
                /\ Log("create_badgeclass", a, c.sent, c.rcvd, out, NoResponse)
    /\ UNCHANGED <<pc, ctorVars>>

\* BadgrClient.load_badge_names(issuer_eid), with the call it makes of
\* Issuer.fetch_badgeclasses(load_badge_names=False); without
\* unique_badge_names the client has no attribute badge_names (line 255)
LoadBadgeNames(issuer_eid) ==
    LET issuer == NewBase("Issuer", issuer_eid)
        a == [issuer_eid |-> issuer_eid]
    IN
    /\ pc = "ready"
    /\ IF ~EidRequired(issuer)
       THEN /\ Log("load_badge_names", a, << >>, << >>, "Exception", NoResponse)
            /\ UNCHANGED <<sessionVars, now, indexVars>>
       ELSE \E in \in RefreshInputs(RefreshResponses, Session, TRUE, now),
               resp \in ResultResponses(BadgeItems(BadgeNames, issuer_eid)) :
            LET c == CallApi(Session, "GET",
                             GetEntityEp(issuer) \o "/badgeclasses", NoData, TRUE,
                             now, in[2], in[1], resp)
                issuers_badges == Deserialize(resp.result)
                out == IF c.out # "ok" THEN c.out
                       ELSE IF issuers_badges.out # "ok" THEN issuers_badges.out
                       ELSE IF ~unique_badge_names /\ resp.result # << >>
                       THEN "AttributeError"
                       ELSE "ok"
            IN  /\ SetSession(c.sess)
                /\ now' = in[2]
                /\ badge_names' = IF out = "ok" /\ unique_badge_names
                                  THEN SaveBadgeNames(badge_names, issuers_badges.value)
                                  ELSE badge_names
                /\ created' = created
                /\ Log("load_badge_names", a, c.sent, c.rcvd, out, NoResponse)
    /\ UNCHANGED <<pc, ent, ctorVars>>

\* the items the server answers the creation of an issuer or of an
\* assertion with; they carry neither a badge name nor an issuer key
CreatedItems(kind) == {Item(kind, eid, None, None) : eid \in EntityIds}

\* Issuer.create(name, description, email, url, image); description, email,
\* url and image are copied into the payload and read nowhere else
CreateIssuer(name) ==
    /\ pc = "ready"
    /\ ent.kind = "Issuer"
    /\ \E in \in RefreshInputs(RefreshResponses, Session, TRUE, now),
          resp \in ResultResponses(CreatedItems("Issuer")) :
        LET c == CallApi(Session, "POST", ENDPOINT("Issuer"), [name |-> name], TRUE,
                         now, in[2], in[1], resp)
            out == IF c.out # "ok" THEN c.out
                   ELSE IF Len(resp.result) = 0 THEN "IndexError"   \* line 340
                   ELSE "ok"
        IN  /\ SetSession(c.sess)
            /\ now' = in[2]
            /\ ent' = IF out = "ok" THEN SetData(ent, resp.result[1]) ELSE ent
            /\ Log("create_issuer", [name |-> name], c.sent, c.rcvd, out, NoResponse)
    /\ UNCHANGED <<pc, indexVars, ctorVars>>

\* mutant: the index is consulted whether or not a badge_eid was supplied
ResolveBadgeEid_IndexFirst(unique, idx, badge_eid, badge_name, issuer_eid) ==
    IF unique /\ Truthy(GetEidFromBadgeName(unique, idx, badge_name, issuer_eid))
    THEN GetEidFromBadgeName(unique, idx, badge_name, issuer_eid)
    ELSE badge_eid

\* Assertion.create lines 125-128: the badge_eid the assertion is issued for
ResolveBadgeEid(unique, idx, badge_eid, badge_name, issuer_eid) ==
    IF ~Truthy(badge_eid) /\ unique
    THEN GetEidFromBadgeName(unique, idx, badge_name, issuer_eid)
    ELSE badge_eid

\* Assertion.create(recipient_email, badge_eid, issuer_eid, badge_name);
\* narrative, evidence, expires, issued_on and notify are copied into the
\* payload and read nowhere else
CreateAssertion(recipient_email, badge_eid, issuer_eid, badge_name) ==
    LET a == [recipient_email |-> recipient_email, badge_eid |-> badge_eid,
              issuer_eid |-> issuer_eid, badge_name |-> badge_name]
        payload == [recipient |-> [type |-> "email", identity |-> recipient_email]]
        resolved == ResolveBadgeEid(unique_badge_names, badge_names,
                                    badge_eid, badge_name, issuer_eid)
    IN
    /\ pc = "ready"
    /\ ent.kind = "Assertion"
    /\ IF ~Truthy(resolved)
       THEN /\ Log("create_assertion", a, << >>, << >>, "BadgrClientError", NoResponse)
            /\ UNCHANGED <<sessionVars, now, ent>>
       ELSE \E in \in RefreshInputs(RefreshResponses, Session, TRUE, now),
               resp \in ResultResponses(CreatedItems("Assertion")) :
            LET c == CallApi(Session, "POST",
                             ENDPOINT("BadgeClass") \o "/" \o resolved \o "/assertions",
                             payload, TRUE, now, in[2], in[1], resp)
                out == IF c.out # "ok" THEN c.out
                       ELSE IF Len(resp.result) = 0 THEN "IndexError"   \* line 141
                       ELSE "ok"
            IN  /\ SetSession(c.sess)
                /\ now' = in[2]
                /\ ent' = IF out = "ok" THEN SetData(ent, resp.result[1]) ELSE ent
                /\ Log("create_assertion", a, c.sent, c.rcvd, out, NoResponse)
    /\ UNCHANGED <<pc, indexVars, ctorVars>>

\* Issuer.fetch_badgeclasses(load_badge_names)
FetchBadgeclasses(load_badge_names) ==
    LET a == [load_badge_names |-> load_badge_names]
    IN
    /\ pc = "ready"
    /\ ent.kind = "Issuer"
    /\ IF ~EidRequired(ent)
       THEN /\ RaiseEidRequired("fetch_badgeclasses", a)
            /\ UNCHANGED indexVars
       ELSE \E in \in RefreshInputs(RefreshResponses, Session, TRUE, now),
               resp \in ResultResponses(BadgeItems(BadgeNames, ent.entityId)) :
            LET c == CallApi(Session, "GET",
                             GetEntityEp(ent) \o "/badgeclasses", NoData, TRUE,
                             now, in[2], in[1], resp)
                result == Deserialize(resp.result)
                out == IF c.out # "ok" THEN c.out ELSE result.out
            IN  /\ SetSession(c.sess)
                /\ now' = in[2]
                /\ ent' = ent
                /\ badge_names' = IF /\ out = "ok"
                                     /\ load_badge_names
                                     /\ unique_badge_names
                                  THEN SaveBadgeNames(badge_names, result.value)
                                  ELSE badge_names
                /\ created' = created
                /\ Log("fetch_badgeclasses", a, c.sent, c.rcvd, out,
                       IF out = "ok" THEN [list |-> result.value] ELSE NoResponse)
    /\ UNCHANGED <<pc, ctorVars>>

\* a client constructed from a supplied token, with or without
\* unique_badge_names
InitIndex ==
    /\ pc = "ready"
    /\ username = None
    /\ password = None
    /\ env_username = None
    /\ env_password = None
    /\ token = "t0"
    /\ header = "t0"
    /\ refresh_token = "r0"
    /\ token_expires_at = NoTime
    /\ unique_badge_names \in BOOLEAN
    /\ badge_names = EmptyDict
    /\ created = {}
    /\ now = 0
    /\ ent = NoEntity
    /\ NoLog

Criteria == {<<None, None>>, <<"text", None>>, <<None, "url">>}

NextIndex ==
    \/ \E eid \in EntityIds \cup {None}, name \in BadgeNames \cup {None},
          issuer_eid \in IssuerIds \cup {None} : NewBadgeClass(eid, name, issuer_eid)
    \/ \E name \in BadgeNames, issuer_eid \in IssuerIds, c \in Criteria :
          CreateBadgeClass(name, issuer_eid, c[1], c[2])
    \/ \E issuer_eid \in IssuerIds \cup {None} : LoadBadgeNames(issuer_eid)

SpecIndex == InitIndex /\ [][NextIndex]_vars

\* C10: with unique_badge_names, once BadgeClass.create has succeeded for a
\* name and an issuer, every later create for the same name and issuer that
\* supplies a criteria_text or criteria_url raises BadgrClientError ("name is
\* not unique"), sends no request and leaves the index as it was.
C10_DuplicateNameRejected ==
    [][(/\ unique_badge_names
        /\ op' = "create_badgeclass"
        /\ <<args'.name, args'.issuer_eid>> \in created
        /\ (Truthy(args'.criteria_text) \/ Truthy(args'.criteria_url))) =>
          /\ outcome' = "BadgrClientError"
          /\ sent' = << >>
          /\ badge_names' = badge_names
      ]_vars

\* a creation rejected for its name after the index was written for another
\* name of the same issuer
C10_Witness ==
    /\ unique_badge_names
    /\ op = "create_badgeclass"
    /\ <<args.name, args.issuer_eid>> \in created
    /\ Cardinality(created) >= 2
    /\ outcome = "BadgrClientError"
    /\ sent = << >>

\* C11: BadgeClass.create with neither criteria_text nor criteria_url raises
\* the validation error, also when the name is already in the index (the
\* index is not consulted), sends no request and leaves the index, the
\* entity and the session as they were.
C11_MissingCriteriaRejectedFirst ==
    [][(/\ op' = "create_badgeclass"
        /\ ~Truthy(args'.criteria_text)
        /\ ~Truthy(args'.criteria_url)) =>
          /\ outcome' = "Exception"
          /\ sent' = << >>
          /\ ent' = ent
          /\ UNCHANGED <<badge_names, sessionVars>>
      ]_vars

\* a creation without criteria for a name the index already holds
C11_Witness ==
    /\ unique_badge_names
    /\ op = "create_badgeclass"
    /\ ~Truthy(args.criteria_text)
    /\ ~Truthy(args.criteria_url)
    /\ Truthy(GetEidFromBadgeName(unique_badge_names, badge_names,
                                  args.name, args.issuer_eid))
    /\ outcome = "Exception"
    /\ sent = << >>

(***************************************************************************)
(* Issuing assertions against the badge name index                         *)
(***************************************************************************)
Recipients == {"a@example.org"}

NextAssertion ==
    \/ NewEntity("Assertion", None)
    \/ \E issuer_eid \in IssuerIds : LoadBadgeNames(issuer_eid)
    \/ \E r \in Recipients, badge_eid \in EntityIds \cup {None},
          issuer_eid \in IssuerIds \cup {None}, name \in BadgeNames \cup {None} :
          CreateAssertion(r, badge_eid, issuer_eid, name)

SpecAssertion == InitIndex /\ [][NextAssertion]_vars

\* the id the index holds for (issuer_eid, badge_name), None when the
\* feature is off or there is no such entry
Indexed(issuer_eid, badge_name) ==
    IF /\ unique_badge_names
       /\ issuer_eid \in DOMAIN badge_names
       /\ badge_name \in DOMAIN badge_names[issuer_eid]
    THEN badge_names[issuer_eid][badge_name]
    ELSE None

\* C12: Assertion.create issues for the supplied badge_eid when one is given,
\* else for the id the index holds for (issuer_eid, badge_name); when neither
\* gives an id it raises BadgrClientError, sends nothing and leaves the
\* entity alone; otherwise it sends exactly one request, a POST to
\* /v2/badgeclasses/<id>/assertions.
C12_AssertionTargetsResolvedBadge ==
    [][op' = "create_assertion" =>
          LET target == IF args'.badge_eid # None THEN args'.badge_eid
                        ELSE Indexed(args'.issuer_eid, args'.badge_name)
          IN  IF target = None
              THEN /\ outcome' = "BadgrClientError"
                   /\ sent' = << >>
                   /\ ent' = ent
              ELSE /\ outcome' # "BadgrClientError"
                   /\ Len(sent') = 1
                   /\ sent'[1].method = "POST"
                   /\ sent'[1].ep = "/v2/badgeclasses/" \o target \o "/assertions"
      ]_vars

\* an assertion issued by name: no badge_eid given, the index gave the id
C12_Witness ==
    /\ op = "create_assertion"
    /\ args.badge_eid = None
    /\ outcome = "ok"
    /\ Len(sent) = 1
    /\ sent[1].ep = "/v2/badgeclasses/"
                    \o Indexed(args.issuer_eid, args.badge_name) \o "/assertions"
    /\ ent.entityId # None

(***************************************************************************)
(* BadgrClient.revoke_assertions                                           *)
(***************************************************************************)
REVOKE_EP == "/v2/assertions/revoke"

\* mutant: each item is put in front of the ones before it
RECURSIVE RevokePayload_Reversed(_, _)
RevokePayload_Reversed(ids, reason) ==
    IF ids = << >> THEN << >>
    ELSE Append(RevokePayload_Reversed(Tail(ids), reason),
                [entityId |-> Head(ids), revocationReason |-> reason])

\* the loop of lines 398-400
RECURSIVE RevokePayload(_, _)
RevokePayload(ids, reason) ==
    IF ids = << >> THEN << >>
    ELSE <<[entityId |-> Head(ids), revocationReason |-> reason]>>
         \o RevokePayload(Tail(ids), reason)

\* BadgrClient.revoke_assertions(ids, reason); the list that is the request
\* body is held in the field list of the request's data
RevokeAssertions(ids, reason) ==
    /\ pc = "ready"
    /\ \E in \in RefreshInputs(RefreshResponses, Session, TRUE, now),
          resp \in PlainResponses :
        LET c == CallApi(Session, "POST", REVOKE_EP,
                         [list |-> RevokePayload(ids, reason)], TRUE,
                         now, in[2], in[1], resp)
        IN  /\ SetSession(c.sess)
            /\ now' = in[2]
            /\ Log("revoke_assertions", [ids |-> ids, reason |-> reason],
                   c.sent, c.rcvd, c.out, c.response)
    /\ UNCHANGED <<pc, ent, indexVars, ctorVars>>

NextRevoke ==
    \/ Tick
    \/ \E ids \in ItemLists(EntityIds, MaxIds), reason \in Reasons :
          RevokeAssertions(ids, reason)

SpecRevoke == InitEntity /\ [][NextRevoke]_vars

\* C13: revoke_assertions(ids, reason) sends exactly one request to
\* /v2/assertions/revoke, a POST, as the last request of the call; its body
\* has one item per id, in the order of ids, each with that id as entityId
\* and reason as revocationReason, for the empty list too. The request is
\* missing only when the token exchange the call had to make first failed.
C13_OneRevokePostInOrder ==
    [][op' = "revoke_assertions" =>
          LET n == Len(sent')
              ids == args'.ids
          IN  /\ \A i \in 1..n : sent'[i].ep = REVOKE_EP =>
                    /\ i = n
                    /\ sent'[i].method = "POST"
                    /\ Len(sent'[i].data.list) = Len(ids)
                    /\ \A k \in 1..Len(ids) :
                          sent'[i].data.list[k] =
                              [entityId |-> ids[k], revocationReason |-> args'.reason]
              /\ n >= 1
              /\ sent'[n].ep # REVOKE_EP =>
                    /\ n = 1
                    /\ IsExchange(1, sent')
                    /\ ~ExchangeSucceeded(rcvd'[1])
      ]_vars

\* two different assertions revoked by one accepted request
C13_Witness ==
    /\ op = "revoke_assertions"
    /\ Len(args.ids) = 2
    /\ args.ids[1] # args.ids[2]
    /\ outcome = "ok"
    /\ sent[Len(sent)].ep = REVOKE_EP
    /\ sent[Len(sent)].data.list[2].entityId = args.ids[2]

(***************************************************************************)
(* Listings: fetch_issuer, fetch_badgeclass, fetch_collection              *)
(***************************************************************************)
COLLECTIONS_EP == "/v2/backpack/collections"

\* the endpoints _fetch_id_or_self is called with
ListEndpoints == {ENDPOINT("Issuer"), COLLECTIONS_EP}

\* the entityType values of the server's items: two keys of MODELS and one
\* value that is no key
EntityTypes == {"Issuer", "BadgeClass", "Collection"}

TypedItems == {Item(t, eid, None, None) : t \in EntityTypes, eid \in EntityIds}

ListResponses ==
    {Undecodable, Envelope(TRUE, 400, TRUE, NoStatus)}
    \cup {WithResult(PlainOk, l) : l \in ItemLists(TypedItems, MaxItems)}

\* BadgrClient._fetch_id_or_self(endpoint, eid), which fetch_issuer,
\* fetch_badgeclass and fetch_collection return the value of
FetchIdOrSelf(endpoint, eid) ==
    /\ pc = "ready"
    /\ \E in \in RefreshInputs(RefreshResponses, Session, TRUE, now),
          resp \in ListResponses :
        LET ep == IF Truthy(eid) THEN endpoint \o "/" \o eid ELSE endpoint
            c == CallApi(Session, "GET", ep, NoData, TRUE, now, in[2], in[1], resp)
            result == Deserialize(resp.result)
            out == IF c.out # "ok" THEN c.out ELSE result.out
        IN  /\ SetSession(c.sess)
            /\ now' = in[2]
            /\ Log("fetch_id_or_self", [endpoint |-> endpoint, eid |-> eid],
                   c.sent, c.rcvd, out,
                   IF out = "ok" THEN [list |-> result.value] ELSE NoResponse)
    /\ UNCHANGED <<pc, ent, indexVars, ctorVars>>

NextListing ==
    \E endpoint \in ListEndpoints, eid \in {"e1", None} :
        FetchIdOrSelf(endpoint, eid)

SpecListing == InitIndex /\ [][NextListing]_vars

EntityFields == {"kind", "entityId", "data"}

\* C14: when the listing's response is accepted and every item's entityType
\* is a key of MODELS, the call returns one entity per item, in order, of
\* the item's type, with the item's entityId and the item as its data; when
\* some item's entityType is no key the call raises KeyError and returns
\* nothing; a returned list never holds a raw item.
C14_DeserializeTypedOrFails ==
    /\ (op = "fetch_id_or_self" /\ outcome = "ok") =>
          \A i \in 1..Len(ret.list) : DOMAIN ret.list[i] = EntityFields
    /\ (op = "fetch_id_or_self" /\ GetJson(rcvd[Len(rcvd)]) = "ok") =>
          LET result == rcvd[Len(rcvd)].result
          IN  IF \A i \in 1..Len(result) : result[i].entityType \in MODELS
              THEN /\ outcome = "ok"
                   /\ Len(ret.list) = Len(result)
                   /\ \A i \in 1..Len(result) :
                         /\ ret.list[i].kind = result[i].entityType
                         /\ ret.list[i].entityId = result[i].entityId
                         /\ ret.list[i].data = result[i]
              ELSE /\ outcome = "KeyError"
                   /\ ret = NoResponse

\* a listing of two items of different types comes back as two entities
C14_Witness ==
    /\ op = "fetch_id_or_self"
    /\ outcome = "ok"
    /\ Len(ret.list) = 2
    /\ ret.list[1].kind # ret.list[2].kind
    /\ ret.list[1].entityId # ret.list[2].entityId
    /\ ret.list[2].entityId = rcvd[1].result[2].entityId

(***************************************************************************)
(* The life of an entity: construction, create, fetch, delete              *)
(***************************************************************************)
IssuerNames == {"org"}

NextLifecycle ==
    \/ \E kind \in Kinds, eid \in {"e1", None} : NewEntity(kind, eid)
    \/ \E name \in IssuerNames : CreateIssuer(name)
    \/ \E c \in Criteria : CreateBadgeClass("n1", "i1", c[1], c[2])
    \/ \E r \in Recipients, badge_eid \in {"e1", None} :
          CreateAssertion(r, badge_eid, "i1", "n1")
    \/ Fetch
    \/ Delete

SpecLifecycle == InitIndex /\ [][NextLifecycle]_vars

CreateOps == {"create_issuer", "create_badgeclass", "create_assertion"}

\* C17: an entity object whose entityId is None gets one only by a create
\* that succeeds; after a create that succeeds the entity's data is the
\* first item of the response's result and its entityId that item's
\* entityId; a create that fails leaves the entity as it was; so does
\* delete(), accepted or not.
C17_EntityLifecycle ==
    [][/\ (/\ op' # "new_entity"
           /\ ent.kind # None
           /\ ent.entityId = None
           /\ ent'.entityId # None) => (op' \in CreateOps /\ outcome' = "ok")
       /\ (op' \in CreateOps /\ outcome' = "ok") =>
             LET result == rcvd'[Len(rcvd')].result
             IN  /\ Len(result) >= 1
                 /\ ent'.data = result[1]
                 /\ ent'.entityId = result[1].entityId
                 /\ ent'.kind = ent.kind
       /\ (op' \in CreateOps /\ outcome' # "ok") => ent' = ent
       /\ op' = "delete" => ent' = ent
      ]_vars

\* a bound entity that was created, not constructed with its id, and then
\* deleted: it still has the id and the data the create gave it
C17_Witness ==
    /\ op = "delete"
    /\ outcome = "ok"
    /\ ent.kind = "Issuer"
    /\ ent.entityId = "e2"
    /\ ent.data \in CreatedItems("Issuer")
    /\ ent.data.entityId = "e2"

(***************************************************************************)
(* The writers of the badge name index                                     *)
(***************************************************************************)
NextWriters ==
    \/ \E name \in {"n1", None} : NewBadgeClass(None, name, "i1")
    \/ \E eid \in IssuerIds : NewEntity("Issuer", eid)
    \/ \E name \in BadgeNames, c \in Criteria : CreateBadgeClass(name, "i1", c[1], c[2])
    \/ \E issuer_eid \in IssuerIds : LoadBadgeNames(issuer_eid)
    \/ \E load_badge_names \in BOOLEAN : FetchBadgeclasses(load_badge_names)
    \/ Delete

SpecWriters == InitIndex /\ [][NextWriters]_vars

\* C18: no step removes a key of the index: an issuer that is a key stays
\* one, and so does each badge name under it; and a step changes the index
\* only if unique_badge_names is set and the step is a BadgeClass.create, a
\* load_badge_names or a fetch_badgeclasses(load_badge_names=True) that
\* succeeded.
C18_IndexOnlyGrows ==
    [][/\ \A i \in DOMAIN badge_names :
             /\ i \in DOMAIN badge_names'
             /\ \A n \in DOMAIN badge_names[i] : n \in DOMAIN badge_names'[i]
       /\ badge_names' # badge_names =>
             /\ unique_badge_names
             /\ outcome' = "ok"
             /\ op' \in {"create_badgeclass", "load_badge_names", "fetch_badgeclasses"}
             /\ op' = "fetch_badgeclasses" => args'.load_badge_names
      ]_vars

\* fetch_badgeclasses(load_badge_names=False) listed a badge whose name the
\* index holds another id for, or none, and the index holds two names
C18_Witness ==
    /\ unique_badge_names
    /\ op = "fetch_badgeclasses"
    /\ ~args.load_badge_names
    /\ outcome = "ok"
    /\ Len(ret.list) >= 1
    /\ Indexed(ret.list[1].data.issuer, ret.list[1].data.name) # ret.list[1].entityId
    /\ \E i \in DOMAIN badge_names : Cardinality(DOMAIN badge_names[i]) = 2

\* C19: BadgeClass(client, eid, badge_name, issuer_eid) has the id the index
\* holds for (issuer_eid, badge_name) when unique_badge_names is set and
\* there is such an entry, whatever eid was passed; otherwise it has the eid
\* passed, None when none was; the object has no data and the index is as
\* it was.
C19_ConstructorPrefersIndex ==
    [][op' = "new_badgeclass" =>
          LET found == Indexed(args'.issuer_eid, args'.badge_name)
          IN  /\ ent'.kind = "BadgeClass"
              /\ ent'.entityId = IF found # None THEN found ELSE args'.eid
              /\ ent'.data = NoData
              /\ badge_names' = badge_names
      ]_vars

\* a badge class constructed with an eid that the index overrides
C19_Witness ==
    /\ unique_badge_names
    /\ op = "new_badgeclass"
    /\ args.eid # None
    /\ ent.entityId # args.eid
    /\ ent.entityId = Indexed(args.issuer_eid, args.badge_name)

(***************************************************************************)
(* _save_badge_name on its own: a badge built from an item of a listing    *)
(* in which any of entityId, name and issuer may be missing, then the call *)
(***************************************************************************)
\* badge class items of a listing, with or without their keys
PartialBadgeItems ==
    {Item("BadgeClass", eid, name, issuer) :
        eid \in EntityIds \cup {None}, name \in BadgeNames \cup {None},
        issuer \in IssuerIds \cup {None}}

\* the indexes earlier loads of complete badges leave
LoadedIndexes ==
    {EmptyDict}
    \cup {DictSet(EmptyDict, i, DictSet(EmptyDict, n, e)) :
            i \in IssuerIds, n \in BadgeNames, e \in EntityIds}

InitSave ==
    /\ pc = "ready"
    /\ username = None
    /\ password = None
    /\ env_username = None
    /\ env_password = None
    /\ token = "t0"
    /\ header = "t0"
    /\ refresh_token = "r0"
    /\ token_expires_at = NoTime
    /\ unique_badge_names = TRUE
    /\ badge_names \in LoadedIndexes
    /\ created = {}
    /\ now = 0
    /\ ent \in {Deserialize(<<i>>).value[1] : i \in PartialBadgeItems}
    /\ NoLog

\* BadgrClient._save_badge_name(badge) for the badge held in ent
ApplySaveBadgeName ==
    /\ op = "new"
    /\ badge_names' = SaveBadgeName(badge_names, ent)
    /\ Log("_save_badge_name", NoArgs, << >>, << >>, "ok", NoResponse)
    /\ UNCHANGED <<pc, sessionVars, now, ent, created, ctorVars>>

SpecSave == InitSave /\ [][ApplySaveBadgeName]_vars

\* C20 (as claimed): no entry of the index has None as its issuer id, as
\* its badge name or as its badge id: a badge whose entityId, name or issuer
\* is missing is not inserted.
C20_IndexWellFormed ==
    \A i \in DOMAIN badge_names :
        /\ i # None
        /\ \A n \in DOMAIN badge_names[i] :
              /\ n # None
              /\ badge_names[i][n] # None

====
